---- MODULE Spec2Model ----
(***************************************************************************)
(* Model of layer/input_buffer.py: InputBatchQueueRunner and its two       *)
(* presets DeployInputBuffer / TrainEvalInputBuffer.                       *)
(*                                                                         *)
(* The runner owns one TensorFlow queue (RandomShuffleQueue or FIFOQueue), *)
(* N producer threads running _push, and close_all.  The application owns  *)
(* one session and one coordinator, a control thread (run_threads,         *)
(* close_all, session.close) and a consumer thread that runs pop_batch_op  *)
(* and, in SizeSpec, reads current_queue_size.                             *)
(* Python statements that touch shared state are separate steps, so that    *)
(* every interleaving of the threads is explored.                          *)
(***************************************************************************)
EXTENDS Naturals, Sequences, FiniteSets

\* ---------------------------------------------------------------- bounds
MaxThreads == 2      \* largest num_threads passed to run_threads
MaxBatch == 2        \* largest batch_size
MaxCapacity == 3     \* largest requested capacity
MaxSrc == 2          \* longest sequence the sampler yields
MaxEnqueues == 6     \* most enqueues the threads of one run can attempt
MaxRestarts == 1     \* run_threads calls made on a runner that has threads

Main == 0
Threads == 1..MaxThreads
Callers == {Main} \cup Threads

\* the record produced by fill_with_stopping_info; real records are positive
Stop == 0
Record(p, k) == (p - 1) * MaxSrc + k

VARIABLES
  batch_size,      \* self.batch_size
  capacity,        \* self.capacity
  shuffle,         \* self.shuffle
  min_queue_size,  \* self.min_queue_size
  srcLen,          \* length of the sequence one call of the sampler yields
  queue,           \* records held by self._queue
  queue_closed,    \* the queue has been closed
  attached,        \* self._session / self._coordinator are set (not None)
  session_closed,  \* self._session._closed
  stop,            \* the coordinator's stop event (should_stop())
  threads,         \* len(self._threads)
  pc,              \* position of every thread (Main and the producers)
  idx,             \* idx[p]: number of patches producer p's iterator yielded
  i,               \* i[p]: loop counter of the stopping-patch loop
  mres,            \* how the control thread's last call ended
  cpc,             \* consumer: "idle", "wait" (inside session.run(pop_batch_op))
                   \* or "size_run" (inside current_queue_size, session open)
  cres,            \* how the consumer's last call ended
  size,            \* the value its last call returned, if current_queue_size
  returned,        \* history: the records returned to the consumer
  arrived,         \* history: the records in the order in which their
                   \* enqueues completed (kept in FIFO mode)
  late             \* history: the control thread's running close_all call
                   \* began after a shutdown had completed

vars == <<batch_size, capacity, shuffle, min_queue_size, srcLen, queue,
          queue_closed, attached, session_closed, stop, threads, pc, idx, i,
          mres, cpc, cres, size, returned, arrived, late>>

config == <<batch_size, capacity, shuffle, min_queue_size, srcLen>>

\* ------------------------------------------------------------ construction
Max(a, b) == IF a >= b THEN a ELSE b

\* mutant: the requested capacity is taken as it is
InitCapacity_m(cap, bs) == cap

\* self.capacity = max(capacity, batch_size * 2)
InitCapacity(cap, bs) == Max(cap, bs * 2)

\* self.min_queue_size = self.capacity / 2 if self.shuffle else 0
InitMinQueueSize(cap, sh) == IF sh THEN cap \div 2 ELSE 0

\* DeployInputBuffer forces shuffle=False, TrainEvalInputBuffer passes it on
PresetShuffle(preset, sh) == IF preset = "Deploy" THEN FALSE ELSE sh

\* the capacities the constructor is called with
Requested == 0..MaxCapacity

Init ==
  /\ \E bs \in 1..MaxBatch, cap \in Requested, sh \in BOOLEAN,
        preset \in {"Deploy", "TrainEval"} :
       /\ batch_size = bs
       /\ capacity = InitCapacity(cap, bs)
       /\ shuffle = PresetShuffle(preset, sh)
       /\ min_queue_size =
            InitMinQueueSize(InitCapacity(cap, bs), PresetShuffle(preset, sh))
  /\ srcLen \in 0..MaxSrc
  /\ queue = <<>>
  /\ queue_closed = FALSE
  /\ attached = FALSE
  /\ session_closed = FALSE
  /\ stop = FALSE
  /\ threads = 0
  /\ pc = [c \in Callers |-> IF c = Main THEN "idle" ELSE "none"]
  /\ idx = [p \in Threads |-> 0]
  /\ i = [p \in Threads |-> 0]
  /\ mres = "none"
  /\ cpc = "idle"
  /\ cres = "none"
  /\ size = 0
  /\ returned = <<>>
  /\ arrived = <<>>
  /\ late = FALSE

\* ------------------------------------------------------------- the queue
\* A FIFOQueue keeps its records in arrival order.  A RandomShuffleQueue has
\* no order: its content is a multiset, written here in ascending order.
RECURSIVE Insert(_, _)
Insert(q, r) ==
  IF q = <<>> THEN <<r>>
  ELSE IF r <= Head(q) THEN <<r>> \o q
  ELSE <<Head(q)>> \o Insert(Tail(q), r)

RECURSIVE InsertAll(_, _)
InsertAll(q, b) == IF b = <<>> THEN q ELSE InsertAll(Insert(q, Head(b)), Tail(b))

\* mutant: the queue is built with twice the capacity
QueueCapacity_m == 2 * capacity

\* capacity=self.capacity of the queue constructor
QueueCapacity == capacity

\* enqueue: there is room for one more record
HasRoom == Len(queue) < QueueCapacity

\* the queue after the enqueue of record r
Enqueue(q, r) == IF shuffle THEN Insert(q, r) ELSE Append(q, r)

\* mutant: the floor is applied to the closed queue, not to the open one
MinAfterDequeue_m == IF queue_closed THEN min_queue_size ELSE 0

\* min_after_dequeue of the queue constructor; a closed queue ignores it
MinAfterDequeue == IF queue_closed THEN 0 ELSE min_queue_size

\* mutant: dequeue_up_to instead of dequeue_many
DequeueCount_m == IF Len(queue) < batch_size THEN Len(queue) ELSE batch_size

\* dequeue_many(self.batch_size): number of records one call returns
DequeueCount == batch_size

\* dequeue_many completes once the queue holds this many records
DequeueReady == Len(queue) >= DequeueCount + MinAfterDequeue

Remove(q, j) == SubSeq(q, 1, j - 1) \o SubSeq(q, j + 1, Len(q))

RECURSIVE Pick(_, _)
\* n records drawn one after the other at random positions: <<batch, rest>>
Pick(q, n) ==
  IF n = 0 THEN {<<<<>>, q>>}
  ELSE UNION {{<<<<q[j]>> \o r[1], r[2]>> : r \in Pick(Remove(q, j), n - 1)} :
              j \in 1..Len(q)}

\* mutant: the n newest records are taken
Oldest_m(q, n) ==
  {<<SubSeq(q, Len(q) - n + 1, Len(q)), SubSeq(q, 1, Len(q) - n)>>}

\* the n oldest records: <<batch, rest>>
Oldest(q, n) == {<<SubSeq(q, 1, n), SubSeq(q, n + 1, Len(q))>>}

\* mutant: the queue is a RandomShuffleQueue whatever self.shuffle says
Dequeue_m(q) == Pick(q, batch_size)

\* the outcomes of the dequeue op on queue q
Dequeue(q) == IF shuffle THEN Pick(q, DequeueCount) ELSE Oldest(q, DequeueCount)

\* history of the returned records: in FIFO mode in the order of return, in
\* shuffled mode (where no order is promised) as a multiset in ascending order
Record_returned(h, b) == IF shuffle THEN InsertAll(h, b) ELSE h \o b

HasStop(b) == \E j \in 1..Len(b) : b[j] = Stop

\* ----------------------------------------------------------- run_threads
\* the threads that were started, and their number
StartedThreads == {p \in Threads : pc[p] # "none"}

Started == Cardinality(StartedThreads)

\* mutant: start() is called on the thread that was just appended
StartsNewThread_m == TRUE

\* self._threads[idx].start(): the thread at position idx is the one just
\* appended only when the registry was empty before the call
StartsNewThread == threads = 0

\* run_threads(session, coord, num_threads=n), called by the control thread.
\* Iteration idx appends a new Thread and starts self._threads[idx]; when the
\* registry is not empty that is a thread started earlier and start() raises.
\* The application passes the session and the coordinator it owns.
run_threads(n) ==
  /\ pc[Main] = "idle"
  /\ n * (srcLen + capacity) <= MaxEnqueues
  /\ threads < Started + MaxRestarts
  /\ attached' = TRUE
  /\ IF n = 0
       THEN /\ mres' = "run_ok"
            /\ UNCHANGED <<threads, pc>>
       ELSE IF StartsNewThread
         THEN /\ threads' = n
              /\ pc' = [c \in Callers |-> IF c \in 1..n THEN "loop" ELSE pc[c]]
              /\ mres' = "run_ok"
         ELSE /\ threads' = threads + 1
              /\ mres' = "run_error"
              /\ UNCHANGED pc
  /\ UNCHANGED <<late, arrived, size, config, queue, queue_closed,
                 session_closed, stop, idx, i, cpc, cres, returned>>

\* ------------------------------------------------------------------ _push
\* Positions of a producer: "loop" (for patch in iterator), "enq" / "enq_wait"
\* (entering / blocked in the enqueue of a patch), "flood" (the loop of the
\* stopping patches), "senq" / "senq_wait" (its enqueue), "ca_begin" (an
\* exception handler calls close_all), "ca_join" / "ca_run" (inside
\* close_all), and the ends: "done" (all stopping patches pushed), "stopped"
\* (left the loops on a stop), "cancelled" (CancelledError while blocked),
\* "refused" (CancelledError on entering the enqueue), "closed" (close_all
\* returned), "raised" (close_all raised).
Ends == {"done", "stopped", "cancelled", "refused", "closed", "raised"}

Ended(p) == pc[p] \in Ends

InFlood(p) == pc[p] \in {"senq", "senq_wait"}

\* p leaves its loops, by return or by exception: its locals (the iterator,
\* patch, i) are gone
Leave(p, to) ==
  /\ pc' = [pc EXCEPT ![p] = to]
  /\ idx' = [idx EXCEPT ![p] = 0]
  /\ i' = [i EXCEPT ![p] = 0]

\* the patch the enqueue of producer p feeds
Patch(p) == IF InFlood(p) THEN Stop ELSE Record(p, idx[p])

\* if self._session._closed: break / if self._coordinator.should_stop(): break
ShouldBreak == session_closed \/ stop

\* for patch in iterator: the iterator yields the next patch or is exhausted;
\* the loop body checks for a stop, then the assertions on the patch.
PushNext(p) ==
  /\ pc[p] = "loop"
  /\ IF idx[p] = srcLen
       THEN /\ pc' = [pc EXCEPT ![p] = "flood"]
            /\ UNCHANGED idx
       ELSE /\ idx' = [idx EXCEPT ![p] = idx[p] + 1]
            /\ pc' = [pc EXCEPT ![p] = IF ShouldBreak THEN "flood" ELSE "enq"]
  /\ UNCHANGED <<late, arrived, size, config, queue, queue_closed, attached,
                 session_closed, stop, threads, i, mres, cpc, cres, returned>>

\* mutant: the handlers swallow the exception (except ...: pass)
OnFault_m == "stopped"

\* except ValueError / RuntimeError / Exception: print(e); self.close_all()
OnFault == "ca_begin"

\* a patch that fails the assertions (or a sampler that raises): the
\* exception is caught by "except Exception" and close_all is called
PushFault(p) ==
  /\ pc[p] = "loop"
  /\ idx[p] < srcLen
  /\ ~ShouldBreak
  /\ Leave(p, OnFault)
  /\ UNCHANGED <<late, arrived, size, config, queue, queue_closed, attached,
                 session_closed, stop, threads, mres, cpc, cres, returned>>

\* the enqueue completes: back to the loop it is in
Enqueued(p) ==
  /\ queue' = Enqueue(queue, Patch(p))
  /\ arrived' = IF shuffle THEN arrived ELSE Append(arrived, Patch(p))
  /\ pc' = [pc EXCEPT ![p] = IF InFlood(p) THEN "flood" ELSE "loop"]
  /\ i' = [i EXCEPT ![p] = IF InFlood(p) THEN i[p] + 1 ELSE i[p]]
  /\ UNCHANGED idx

\* mutant: CancelledError is handled like the other exceptions
Cancelled_m(p, end) ==
  /\ Leave(p, OnFault)
  /\ UNCHANGED <<queue, arrived>>

\* except tf.errors.CancelledError: pass
Cancelled(p, end) ==
  /\ Leave(p, end)
  /\ UNCHANGED <<queue, arrived>>

\* self._session.run(self._enqueue_op, ...) is entered
PushEnqueue(p) ==
  /\ pc[p] \in {"enq", "senq"}
  /\ IF session_closed
       THEN \* session.run on a closed session raises RuntimeError
            /\ Leave(p, OnFault)
            /\ UNCHANGED <<queue, arrived>>
       ELSE IF queue_closed THEN Cancelled(p, "refused")
       ELSE IF HasRoom THEN Enqueued(p)
       ELSE /\ pc' = [pc EXCEPT ![p] = IF InFlood(p) THEN "senq_wait" ELSE "enq_wait"]
            /\ UNCHANGED <<queue, arrived, idx, i>>
  /\ UNCHANGED <<late, size, config, queue_closed, attached, session_closed,
                 stop, threads, mres, cpc, cres, returned>>

\* mutant: close(cancel_pending_enqueues=False)
CancelPending_m == FALSE

\* self._queue.close(cancel_pending_enqueues=True)
CancelPending == TRUE

Blocked(p) == pc[p] \in {"enq_wait", "senq_wait"}

\* a producer blocked inside the enqueue is released: by room in the queue,
\* or with CancelledError by the queue or the session being closed
PushWake(p) ==
  /\ Blocked(p)
  /\ IF session_closed \/ (queue_closed /\ CancelPending)
       THEN Cancelled(p, "cancelled")
     ELSE /\ HasRoom
          /\ Enqueued(p)
  /\ UNCHANGED <<late, size, config, queue_closed, attached, session_closed,
                 stop, threads, mres, cpc, cres, returned>>

\* for i in range(0, self.capacity): ... patch.fill_with_stopping_info()
\* patch is unbound when the iterator yielded nothing (NameError)
PushFlood(p) ==
  /\ pc[p] = "flood"
  /\ IF i[p] = capacity THEN Leave(p, "done")
     ELSE IF ShouldBreak THEN Leave(p, "stopped")
     ELSE IF idx[p] = 0 THEN Leave(p, OnFault)
     ELSE /\ pc' = [pc EXCEPT ![p] = "senq"]
          /\ UNCHANGED <<idx, i>>
  /\ UNCHANGED <<late, arrived, size, config, queue, queue_closed, attached,
                 session_closed, stop, threads, mres, cpc, cres, returned>>

\* --------------------------------------------------------------- close_all
\* mutant: the test on the registry inverted
NotRunning_m == threads > 0

\* if not self._threads: raise RuntimeError("the queue is not currently running")
NotRunning == threads = 0

\* a shutdown has completed: the stop is requested and the buffer closed
ShutdownCompleted == stop /\ queue_closed

\* where a caller is once close_all is over, by return or by exception
Ret(c, how) == IF c = Main THEN "idle" ELSE how

Result(c, how) == IF c = Main THEN how ELSE mres

Over(c) == IF c = Main THEN FALSE ELSE late

\* close_all is entered: the guard, then self._coordinator.request_stop()
close_all(c) ==
  /\ IF c = Main THEN pc[c] = "idle" ELSE pc[c] = "ca_begin"
  /\ IF NotRunning
       THEN /\ mres' = Result(c, "NotRunning")
            /\ pc' = [pc EXCEPT ![c] = Ret(c, "raised")]
            /\ UNCHANGED <<stop, late>>
       ELSE /\ stop' = TRUE
            /\ pc' = [pc EXCEPT ![c] = "ca_join"]
            /\ mres' = Result(c, "none")
            /\ late' = IF c = Main THEN ShutdownCompleted ELSE late
  /\ UNCHANGED <<config, queue, queue_closed, attached, session_closed,
                 threads, idx, i, cpc, cres, size, returned, arrived>>

\* mutant: the join waits until every thread of the registry has ended
JoinReturns_m(c) == \A p \in StartedThreads : Ended(p)

\* self._coordinator.join(threads, stop_grace_period_secs=0,
\* ignore_live_threads=True): with the stop requested it returns whether or
\* not the threads are alive
JoinReturns(c) == TRUE

\* mutant: the test on the session inverted, the close op is skipped while
\* the session is open
CloseCheck_m(c) ==
  /\ pc[c] = "ca_join"
  /\ JoinReturns(c)
  /\ IF ~session_closed
       THEN /\ pc' = [pc EXCEPT ![c] = Ret(c, "closed")]
            /\ mres' = Result(c, "returned")
            /\ late' = Over(c)
       ELSE /\ pc' = [pc EXCEPT ![c] = "ca_run"]
            /\ UNCHANGED <<mres, late>>
  /\ UNCHANGED <<config, queue, queue_closed, attached, session_closed, stop,
                 threads, idx, i, cpc, cres, size, returned, arrived>>

\* the join, then finally: if not self._session._closed:
CloseCheck(c) ==
  /\ pc[c] = "ca_join"
  /\ JoinReturns(c)
  /\ IF session_closed
       THEN /\ pc' = [pc EXCEPT ![c] = Ret(c, "closed")]
            /\ mres' = Result(c, "returned")
            /\ late' = Over(c)
       ELSE /\ pc' = [pc EXCEPT ![c] = "ca_run"]
            /\ UNCHANGED <<mres, late>>
  /\ UNCHANGED <<config, queue, queue_closed, attached, session_closed, stop,
                 threads, idx, i, cpc, cres, size, returned, arrived>>

\* mutant: another op of the runner is run in place of the close op, the
\* queue stays open
CloseRun_m(c) ==
  /\ pc[c] = "ca_run"
  /\ late' = Over(c)
  /\ IF session_closed
       THEN /\ pc' = [pc EXCEPT ![c] = Ret(c, "raised")]
            /\ mres' = Result(c, "RuntimeError")
       ELSE /\ pc' = [pc EXCEPT ![c] = Ret(c, "closed")]
            /\ mres' = Result(c, "returned")
  /\ UNCHANGED <<config, queue, queue_closed, attached, session_closed, stop,
                 threads, idx, i, cpc, cres, size, returned, arrived>>

\* self._session.run(self._close_queue_op): close(cancel_pending_enqueues=True)
CloseRun(c) ==
  /\ pc[c] = "ca_run"
  /\ late' = Over(c)
  /\ IF session_closed
       THEN /\ pc' = [pc EXCEPT ![c] = Ret(c, "raised")]
            /\ mres' = Result(c, "RuntimeError")
            /\ UNCHANGED queue_closed
       ELSE /\ pc' = [pc EXCEPT ![c] = Ret(c, "closed")]
            /\ mres' = Result(c, "returned")
            /\ queue_closed' = TRUE
  /\ UNCHANGED <<config, queue, attached, session_closed, stop, threads, idx,
                 i, cpc, cres, size, returned, arrived>>

\* ------------------------------------------------------------ application
\* the application closes its session
SessionClose ==
  /\ ~session_closed
  /\ session_closed' = TRUE
  /\ UNCHANGED <<late, arrived, size, config, queue, queue_closed, attached,
                 stop, threads, pc, idx, i, mres, cpc, cres, returned>>

\* the consumer enters session.run(pop_batch_op); the value of an earlier
\* current_queue_size call is dropped
PopCall ==
  /\ cpc = "idle"
  /\ IF session_closed
       THEN cres' = "RuntimeError" /\ UNCHANGED cpc
       ELSE cpc' = "wait" /\ cres' = "none"
  /\ size' = 0
  /\ UNCHANGED <<late, arrived, config, queue, queue_closed, attached,
                 session_closed, stop, threads, pc, idx, i, mres, returned>>

\* the dequeue completes with a batch
PopReturn ==
  /\ cpc = "wait"
  /\ ~session_closed
  /\ DequeueReady
  /\ \E r \in Dequeue(queue) :
       /\ returned' = Record_returned(returned, r[1])
       /\ queue' = r[2]
       /\ cres' = IF HasStop(r[1]) THEN "stop_batch" ELSE "batch"
  /\ cpc' = "idle"
  /\ UNCHANGED <<late, arrived, size, config, queue_closed, attached,
                 session_closed, stop, threads, pc, idx, i, mres>>

\* the dequeue fails: the queue is closed and holds too few records, or the
\* session was closed under the call
PopFail ==
  /\ cpc = "wait"
  /\ \/ session_closed
     \/ queue_closed /\ Len(queue) < DequeueCount
  /\ cpc' = "idle"
  /\ cres' = "Cancelled"
  /\ UNCHANGED <<late, arrived, size, config, queue, queue_closed, attached,
                 session_closed, stop, threads, pc, idx, i, mres, returned>>

\* mutant: the size op reports a closed queue as empty
QueueSize_m == IF queue_closed THEN 0 ELSE Len(queue)

\* self._query_queue_size_op = self._queue.size(): the number of records in
\* the queue, open or closed
QueueSize == Len(queue)

\* current_queue_size is read by the consumer, once run_threads has set
\* self._session: if self._session._closed: return 0
current_queue_size ==
  /\ cpc = "idle"
  /\ attached
  /\ IF session_closed
       THEN cres' = "size" /\ UNCHANGED cpc
       ELSE cpc' = "size_run" /\ cres' = "none"
  /\ size' = 0
  /\ UNCHANGED <<late, arrived, config, queue, queue_closed, attached,
                 session_closed, stop, threads, pc, idx, i, mres, returned>>

\* return self._session.run(self._query_queue_size_op); session.run on a
\* session that was closed in the meantime raises RuntimeError
SizeRun ==
  /\ cpc = "size_run"
  /\ IF session_closed
       THEN cres' = "RuntimeError" /\ UNCHANGED size
       ELSE cres' = "size" /\ size' = QueueSize
  /\ cpc' = "idle"
  /\ UNCHANGED <<late, arrived, config, queue, queue_closed, attached,
                 session_closed, stop, threads, pc, idx, i, mres, returned>>

Next ==
  \/ \E n \in 0..MaxThreads : run_threads(n)
  \/ \E p \in Threads : PushNext(p)
  \/ \E p \in Threads : PushFault(p)
  \/ \E p \in Threads : PushEnqueue(p)
  \/ \E p \in Threads : PushWake(p)
  \/ \E p \in Threads : PushFlood(p)
  \/ \E c \in Callers : close_all(c)
  \/ \E c \in Callers : CloseCheck(c)
  \/ \E c \in Callers : CloseRun(c)
  \/ SessionClose
  \/ PopCall
  \/ PopReturn
  \/ PopFail

\* the pipeline: the control thread, the producers and the consumer that
\* pulls batches
Spec == Init /\ [][Next]_vars

\* the pipeline with a consumer that also reads current_queue_size
NextSize ==
  \/ Next
  \/ current_queue_size
  \/ SizeRun

SizeSpec == Init /\ [][NextSize]_vars

\* ================================================================ claims
\* every started producer exhausted its source and pushed all its stopping
\* patches (no stop, no fault, no cancellation)
AllFlooded == Started > 0 /\ \A p \in StartedThreads : pc[p] = "done"

Reals(h) == SelectSeq(h, LAMBDA r : r # Stop)

ElemsOf(h) == {h[j] : j \in 1..Len(h)}

\* the records the source sequences of the started producers carry
ProducedSet == {Record(p, k) : p \in StartedThreads, k \in 1..srcLen}

IsPrefix(a, b) == Len(a) <= Len(b) /\ SubSeq(b, 1, Len(a)) = a

\* ---------------------------------------------------------------- C1
\* C1: once every producer's source sequence is exhausted and no close_all
\* is called, no dequeueBatch call blocks forever.  Stated on the state in
\* which a call would block forever: every producer has exhausted its source,
\* pushed its stopping patches and exited, nothing was stopped or closed, and
\* the pending dequeue cannot complete; only close_all or closing the session
\* could still release it.
BlockedForever ==
  /\ AllFlooded
  /\ ~stop /\ ~queue_closed /\ ~session_closed
  /\ pc[Main] = "idle"
  /\ cpc = "wait"
  /\ ~DequeueReady

C1_NoDequeueBlocksForever == ~BlockedForever

\* ---------------------------------------------------------------- C2
\* C2: Shuffled mode, all producers finished normally, the buffer drained as
\* far as dequeueBatch can drain it: the non-sentinel records returned are
\* exactly the produced records, each once.
Drained == AllFlooded /\ ~session_closed /\ ~DequeueReady

C2_ShuffledNoLossNoDuplication ==
  (shuffle /\ Drained) =>
     /\ ElemsOf(Reals(returned)) = ProducedSet
     /\ Len(Reals(returned)) = Cardinality(ProducedSet)

\* ---------------------------------------------------------------- C3
\* C3: FIFO mode, one producer: the batches returned, concatenated, are the
\* produced sequence in order followed only by StopRecords; they come in whole
\* batches, and once the producer has finished and no further batch can be
\* returned, the whole produced sequence has been returned.
Expected ==
  [k \in 1..(srcLen + capacity) |-> IF k <= srcLen THEN Record(1, k) ELSE Stop]

C3_FifoSingleProducerOrder ==
  (~shuffle /\ Started = 1) =>
     /\ IsPrefix(returned, Expected)
     /\ Len(returned) % batch_size = 0
     /\ (pc[1] = "done" /\ ~session_closed /\ ~DequeueReady)
          => Len(returned) > srcLen

\* a run of the scenario of the claim: the batch that mixes the last produced
\* record with a StopRecord, then a batch of StopRecords
C3_Witness ==
  /\ ~shuffle /\ Started = 1 /\ batch_size = 2 /\ srcLen = 1
  /\ returned = <<1, Stop, Stop, Stop>>

\* ---------------------------------------------------------------- C4
\* C4: a dequeueBatch(batchSize) call that returns, returns exactly batchSize
\* records, all taken out of the buffer; a call that ends while the buffer is
\* closed and holds fewer than batchSize records fails with Cancelled and
\* returns nothing.
C4_ExactBatch ==
  [][(cpc = "wait" /\ cpc' = "idle") =>
        /\ \/ /\ cres' \in {"batch", "stop_batch"}
              /\ Len(returned') = Len(returned) + batch_size
              /\ Len(queue') = Len(queue) - batch_size
           \/ /\ cres' = "Cancelled"
              /\ returned' = returned
              /\ queue' = queue
        /\ (queue_closed /\ Len(queue) < batch_size) => cres' = "Cancelled"
        /\ (cres' = "Cancelled") =>
              (session_closed \/ (queue_closed /\ Len(queue) < batch_size))]_vars

\* full batches were returned, then a call failed on the closed buffer that
\* still held a record
C4_Witness ==
  /\ cres = "Cancelled" /\ queue_closed /\ ~session_closed
  /\ batch_size = 2 /\ Len(queue) = 1 /\ Len(returned) >= 2

\* ---------------------------------------------------------------- C5
\* C5: the number of buffered records never exceeds capacity.
C5_BoundedBuffer == Len(queue) <= capacity

\* the buffer is full and two producers are blocked in their enqueue
C5_Witness ==
  /\ Len(queue) = capacity
  /\ Cardinality({p \in Threads : Blocked(p)}) >= 2

\* ---------------------------------------------------------------- C6
\* C6: producers blocked in enqueue on a full buffer when close_all is called
\* do not stay blocked.  As long as a producer is blocked after the stop was
\* requested, either a close_all call is on its way to the close of the
\* buffer and can take its next step, or the buffer (or the session) is closed
\* and the producer's release can happen at once; the release of a producer
\* blocked on the closed buffer is a failure with Cancelled, which ends the
\* thread.  With threads that keep being scheduled this is: every blocked
\* enqueue is released with Cancelled and its thread terminates.
Closing(c) ==
  /\ pc[c] \in {"ca_join", "ca_run"}
  /\ ENABLED (CloseCheck(c) \/ CloseRun(c))

InEnqueue(p) == pc[p] \in {"enq", "senq", "enq_wait", "senq_wait"}

InCloseAll(c) == pc[c] \in {"ca_begin", "ca_join", "ca_run"}

Rank(at) == IF at = "ca_begin" THEN 3 ELSE IF at = "ca_join" THEN 2
            ELSE IF at = "ca_run" THEN 1 ELSE 0

CloseAllReturned == mres = "returned" \/ \E p \in Threads : pc[p] = "closed"

C8_CloseAllTerminates ==
  /\ [](\A c \in Callers :
          InCloseAll(c) =>
             ENABLED (close_all(c) \/ CloseCheck(c) \/ CloseRun(c)))
  /\ [][\A c \in Callers :
          (InCloseAll(c) /\ pc'[c] # pc[c]) => Rank(pc'[c]) < Rank(pc[c])]_vars
  /\ [](CloseAllReturned => (stop /\ (~session_closed => queue_closed)))

\* close_all, called from inside a producer thread, has returned while
\* another producer was still alive, blocked in its enqueue
C8_Witness ==
  \E p, q \in Threads :
    /\ pc[p] = "closed" /\ Blocked(q)
    /\ queue_closed /\ ~session_closed

\* ---------------------------------------------------------------- C9
\* C9: a close_all call that the control thread makes after a completed
\* shutdown does not raise, and none of its steps changes the buffer (closed
\* flag, records), the stop flag or the thread registry.
C9_SecondCloseAllIdempotent ==
  [][(late /\ (CloseCheck(Main) \/ CloseRun(Main))) =>
        /\ UNCHANGED <<queue, queue_closed, stop, threads>>
        /\ mres' \in {"none", "returned"}]_vars

\* ---------------------------------------------------------------- C10
\* C10: close_all on a runner on which run_threads was never called raises
\* NotRunning and changes nothing else.
C10_NotRunningNoSideEffects ==
  [][(~attached /\ close_all(Main)) =>
        /\ mres' = "NotRunning"
        /\ UNCHANGED <<config, queue, queue_closed, attached, session_closed,
                       stop, threads, pc, idx, i, cpc, cres, returned>>]_vars

\* the call was made before run_threads and raised
C10_Witness == mres = "NotRunning" /\ ~attached /\ threads = 0 /\ ~stop

\* ---------------------------------------------------------------- C11
\* C11: Closed is terminal.  Once a shutdown has gone through (the stop is
\* requested and the buffer, or the session, is closed) it stays so: no step,
\* a further run_threads call included, starts a thread, moves an ended
\* thread again or adds a record to the buffer, and a run_threads call that
\* asks for threads (a step that adds to the registry) raises and leaves all
\* threads where they are.
Closed == stop /\ (queue_closed \/ session_closed)

ClosePerformed(c) == pc[c] = "ca_run" /\ ~session_closed /\ pc'[c] # pc[c]

C12_ClosedExactlyOnce ==
  [][\A c \in Callers : ClosePerformed(c) => ~queue_closed]_vars

\* C12 (amended): the buffer goes from open to closed at most once and never
\* reopens.  Only the close op closes it; every close_all call that reaches
\* the close op with the session open performs it, the first performance
\* closes the buffer and adds or removes no record, and a performance on the
\* closed buffer changes nothing but the caller's own position and result.
C12_ClosedOnceInEffect ==
  [][/\ queue_closed => queue_closed'
     /\ (queue_closed' /\ ~queue_closed) => \E c \in Callers : ClosePerformed(c)
     /\ \A c \in Callers :
          ClosePerformed(c) =>
            /\ queue_closed'
            /\ UNCHANGED <<config, queue, session_closed, stop, threads, idx,
                           i, cpc, cres, returned>>
            /\ \A q \in Callers \ {c} : pc'[q] = pc[q]]_vars

\* the close op was performed three times: by two producers, each after a
\* fault of its own, and by the control thread's close_all
C12_Witness ==
  /\ ~session_closed /\ queue_closed /\ mres = "returned"
  /\ \A p \in 1..2 : pc[p] = "closed"

\* ---------------------------------------------------------------- C13
\* C13: FIFO mode, any number of producers: the records are returned in the
\* order in which their enqueues completed.  The records returned so far,
\* in the order of their return, followed by the buffered records, are the
\* records in arrival order: whatever arrived earlier is returned earlier.
C13_FifoArrivalOrder ==
  ~shuffle => (arrived = returned \o queue /\ IsPrefix(returned, arrived))

\* two producers: the record of the second arrived and was returned before
\* the record of the first
C13_Witness ==
  /\ ~shuffle /\ Started = 2
  /\ Len(returned) >= 2
  /\ returned[1] = Record(2, 1) /\ returned[2] = Record(1, 1)

\* ---------------------------------------------------------------- C14
\* C14 (as claimed): a size query that returns a value returns the number of
\* buffered records if the buffer is open, and 0 if the buffer is closed,
\* whatever it holds.  Stated for the queries made while the session is open
\* (the others are answered without the buffer being asked).
SizeReturns == cres' = "size" /\ (current_queue_size \/ SizeRun)

C14_SizeZeroWhenClosed ==
  [][(SizeReturns /\ ~session_closed) =>
        size' = IF queue_closed THEN 0 ELSE Len(queue)]_vars

\* C14 (amended): the query returns 0 when it finds the session closed,
\* whatever the buffer holds and whether or not the buffer is closed; when it
\* finds the session open it asks the buffer and returns the number of
\* buffered records, also when the buffer is closed, or fails when the session
\* is closed before the buffer is asked.  It changes nothing else.
C14_SizeZeroWhenSessionClosed ==
  [][/\ current_queue_size =>
          IF session_closed
            THEN cres' = "size" /\ size' = 0 /\ cpc' = "idle"
            ELSE cpc' = "size_run"
     /\ (cpc = "size_run" /\ cpc' # cpc) =>
          /\ cpc' = "idle"
          /\ IF session_closed
               THEN cres' = "RuntimeError"
               ELSE cres' = "size" /\ size' = Len(queue)
     /\ (current_queue_size \/ SizeRun) =>
          UNCHANGED <<config, queue, queue_closed, session_closed, stop,
                      threads, pc, idx, i, mres, returned>>]_vars

\* the query returned the number of records left in the closed buffer
C14_Witness ==
  /\ cres = "size" /\ size > 0 /\ size = Len(queue)
  /\ queue_closed /\ ~session_closed

\* ---------------------------------------------------------------- C15
\* C15: a producer whose source is exhausted, with no stop requested and the
\* session open, enqueues capacity StopRecords, all after its real records,
\* and exits; a producer that left its loop on a stop enqueues none.  In the
\* loop of the stopping patches: while nothing is stopped the producer's next
\* step is the enqueue of a StopRecord, until capacity of them are pushed; it
\* ends as done only then; what it enqueues there is a StopRecord and it does
\* not go back to its real records; on a stop it leaves without an enqueue.
C15_FloodOnExhaustion ==
  [][\A p \in Threads :
       /\ (pc[p] = "flood" /\ pc'[p] # pc[p]) =>
            IF i[p] = capacity THEN pc'[p] = "done"
            ELSE IF ShouldBreak THEN pc'[p] = "stopped"
            ELSE pc'[p] = "senq"
       /\ (pc'[p] = "done" /\ pc[p] # "done") => i[p] = capacity
       /\ (InFlood(p) /\ pc'[p] = "flood") =>
            (i'[p] = i[p] + 1 /\ Len(queue') = Len(queue) + 1
             /\ Stop \in ElemsOf(queue'))
       /\ (InFlood(p) \/ pc[p] = "flood") => pc'[p] \notin {"loop", "enq", "enq_wait"}
       /\ (~InFlood(p) /\ Len(queue') > Len(queue) /\ pc'[p] # pc[p]) =>
            Record(p, idx[p]) \in ElemsOf(queue')]_vars

\* ---------------------------------------------------------------- C16
\* C16: once the stop flag is raised or the session closed, no producer
\* enqueues a further record, real or StopRecord: no step adds a record to
\* the buffer, and a producer at the check of one of its loops leaves the
\* loop without starting an enqueue.
C16_NoEnqueueAfterStop ==
  [][ShouldBreak =>
       /\ Len(queue') <= Len(queue)
       /\ \A p \in Threads :
            (pc[p] \in {"loop", "flood"} /\ pc'[p] # pc[p]) =>
               pc'[p] \in {"flood", "stopped", "done"}]_vars

\* ---------------------------------------------------------------- C17
\* C17 (as claimed): a fatal error in a producer leads to the stop flag being
\* set and the buffer being closed: when the close_all call of the failed
\* producer is over, both have happened.
FaultHandled(p) == pc[p] \in {"closed", "raised"}

C17_FaultClosesBuffer ==
  \A p \in Threads : FaultHandled(p) => (stop /\ queue_closed)

\* C17 (amended): a failure of a producer other than Cancelled (a patch that
\* fails the assertions, session.run on the closed session, the unbound
\* patch) makes it call close_all, whose steps can always be taken.  When
\* that call is over the stop flag is set and the buffer is closed, or else
\* the session is (its closing cancels the pending enqueues itself).  From
\* then on no record enters the buffer, and every producer still alive can
\* take a step, each of its steps bringing it nearer to its exit.
ProducerStep(p) ==
  \/ PushNext(p) \/ PushEnqueue(p) \/ PushWake(p) \/ PushFlood(p)
  \/ close_all(p) \/ CloseCheck(p) \/ CloseRun(p)

ExitRank(at) ==
  IF at = "loop" THEN 5
  ELSE IF at \in {"flood", "enq", "senq", "enq_wait", "senq_wait"} THEN 4
  ELSE Rank(at)

C17_FaultStopsPipeline ==
  /\ [][\A p \in Threads :
          /\ PushFault(p) => pc'[p] = "ca_begin"
          /\ (pc[p] \in {"enq", "senq"} /\ session_closed /\ pc'[p] # pc[p])
                => pc'[p] = "ca_begin"
          /\ (pc[p] = "flood" /\ idx[p] = 0 /\ i[p] < capacity /\ ~ShouldBreak
                /\ pc'[p] # pc[p]) => pc'[p] = "ca_begin"]_vars
  /\ [](\A p \in Threads :
          /\ InCloseAll(p) =>
                ENABLED (close_all(p) \/ CloseCheck(p) \/ CloseRun(p))
          /\ FaultHandled(p) => Closed)
  /\ [](Closed =>
          \A p \in StartedThreads : ~Ended(p) => ENABLED ProducerStep(p))
  /\ [][Closed =>
          /\ Len(queue') <= Len(queue)
          /\ \A p \in Threads :
               pc'[p] # pc[p] => ExitRank(pc'[p]) < ExitRank(pc[p])]_vars

\* a producer failed and its close_all closed the buffer, which cancelled the
\* enqueue another producer was blocked in
C17_Witness ==
  \E p, q \in Threads :
    /\ pc[p] = "closed" /\ pc[q] = "cancelled"
    /\ queue_closed /\ ~session_closed /\ pc[Main] = "idle" /\ ~late

\* ---------------------------------------------------------------- C18
\* C18: a producer whose enqueue fails with Cancelled (it was blocked when
\* the buffer or the session was closed, or it entered the enqueue on the
\* closed buffer) exits silently: the step ends the thread, it changes neither
\* the stop flag nor the buffer nor anything else, and the thread takes no
\* further step, so it never calls close_all.
EnqueueCancelled(p) ==
  /\ \/ Blocked(p) /\ (queue_closed \/ session_closed)
     \/ pc[p] \in {"enq", "senq"} /\ queue_closed /\ ~session_closed
  /\ pc'[p] # pc[p]

C18_CancelledExitsSilently ==
  [][\A p \in Threads :
       /\ EnqueueCancelled(p) =>
            /\ pc'[p] \in {"cancelled", "refused"}
            /\ \A q \in Callers \ {p} : pc'[q] = pc[q]
            /\ UNCHANGED <<config, queue, queue_closed, attached,
                           session_closed, stop, threads, mres, cpc, cres,
                           size, returned, arrived, late>>
       /\ pc[p] \in {"cancelled", "refused"} => pc'[p] = pc[p]]_vars

\* the session was closed under a blocked producer, which ended with
\* Cancelled: no stop is requested and the buffer is not closed
C18_Witness ==
  /\ \E p \in Threads : pc[p] = "cancelled"
  /\ session_closed /\ ~stop /\ ~queue_closed
  /\ \A p \in Threads : ~InCloseAll(p)

\* ---------------------------------------------------------------- C19
\* C19: Shuffled mode, buffer open: a dequeue completes only with at least
\* minFill = capacity/2 records buffered, before and after it.  The floor is
\* lifted once the buffer is closed: a pending dequeue on the closed buffer
\* can complete as soon as batchSize records are left.  In FIFO mode minFill is
\* 0 and a pending dequeue can complete as soon as batchSize records are
\* buffered.
DequeueCompletes == cpc = "wait" /\ cpc' = "idle" /\ cres' \in {"batch", "stop_batch"}

C19_MinFillFloor ==
  /\ [][(shuffle /\ ~queue_closed /\ DequeueCompletes) =>
          /\ Len(queue) >= min_queue_size
          /\ Len(queue') >= min_queue_size]_vars
  /\ [](shuffle => min_queue_size = capacity \div 2)
  /\ [](~shuffle => min_queue_size = 0)
  /\ []((cpc = "wait" /\ ~session_closed /\ Len(queue) >= batch_size
          /\ (~shuffle \/ queue_closed)) => ENABLED PopReturn)

\* shuffled mode: a dequeue on the closed buffer took records from under the
\* floor
C19_Witness ==
  /\ shuffle /\ queue_closed /\ ~session_closed
  /\ cpc = "idle" /\ cres \in {"batch", "stop_batch"}
  /\ Len(queue) < min_queue_size

\* ---------------------------------------------------------------- C20
\* C20: construction yields capacity = max(requested, 2*batchSize) and
\* minFill = capacity/2 (integer division) in Shuffled mode, 0 in FIFO mode;
\* hence capacity >= 2*batchSize and minFill + batchSize <= capacity, and a
\* dequeue pending on a full buffer can complete, leaving at least minFill
\* records behind.
C20_CapacityAndMinFill ==
  /\ [](/\ batch_size > 0
        /\ \E cap \in Requested :
             capacity = (IF cap >= 2 * batch_size THEN cap ELSE 2 * batch_size)
        /\ capacity >= 2 * batch_size
        /\ min_queue_size = (IF shuffle THEN capacity \div 2 ELSE 0)
        /\ 2 * min_queue_size <= capacity
        /\ min_queue_size + batch_size <= capacity
        /\ (Len(queue) = capacity /\ cpc = "wait" /\ ~session_closed)
              => ENABLED PopReturn)
  /\ [][(Len(queue) = capacity /\ DequeueCompletes) =>
          (Len(queue') = capacity - batch_size
           /\ Len(queue') >= min_queue_size)]_vars

\* batch_size 2 raised the requested capacity to 4; the first dequeue of the
\* shuffled buffer completed when the buffer was full and left minFill = 2
C20_Witness ==
  /\ shuffle /\ batch_size = 2 /\ capacity = 4 /\ min_queue_size = 2
  /\ ~stop /\ ~queue_closed /\ ~session_closed
  /\ Len(returned) = 2 /\ Len(queue) = 2 /\ cpc = "idle"

====
